---------------------------- MODULE Spec2Model ----------------------------
(***************************************************************************)
(* Model of src/Models/Worker.js: the static worker registry               *)
(* (Worker.workers), the per-worker option accessors, executeJob with its  *)
(* timeout race, and executeJobLifecycleCallback.                          *)
(*                                                                         *)
(* JavaScript values are tagged records so that values of different types  *)
(* can be compared; a thrown exception and a returned value are the two    *)
(* kinds of completion of a call.                                          *)
(***************************************************************************)
EXTENDS Integers, Sequences, FiniteSets, TLC

VARIABLES
    workers,    \* own properties of the static object Worker.workers: name -> function
    fnOptions,  \* the .options property of each handler function object
    ret,        \* the last registry call and how it completed, as its caller saw it
    calls,      \* the executeJob calls: caller's job object, locals, timer, handler, promise
    dispatches, \* the executeJobLifecycleCallback calls: arguments, callback, promise, console
    cbCalls     \* how many times each lifecycle callback has been invoked

vars == <<workers, fnOptions, ret, calls, dispatches, cbCalls>>

---------------------------------------------------------------------------
(* JavaScript values *)

Undef == [t |-> "undefined"]
Null == [t |-> "null"]
NaN == [t |-> "NaN"]
Num(n) == [t |-> "number", v |-> n]
Str(s) == [t |-> "string", v |-> s]
Fn(f) == [t |-> "function", v |-> f]
Obj(o) == [t |-> "object", v |-> o]

\* ToBoolean: undefined, null, NaN, 0 and "" are falsy.
Truthy(v) ==
    /\ v.t \notin {"undefined", "null", "NaN"}
    /\ (v.t = "number" => v.v # 0)
    /\ (v.t = "string" => v.v # "")

\* a || b
JsOr(a, b) == IF Truthy(a) THEN a ELSE b

JsGeZero(a) == a.t = "number" /\ a.v >= 0

\* a > 0 with a converted to a number: undefined and NaN compare false, null is 0.
JsGtZero(a) == a.t = "number" /\ a.v > 0

\* parseInt(v): the model's numbers are integers, which parseInt returns as
\* they are; undefined, null and functions do not start with a digit.
ParseInt(v) == IF v.t = "number" THEN v ELSE NaN

\* Completions of a call.
Return(v) == [kind |-> "return", value |-> v]
Throw(e) == [kind |-> "throw", error |-> e]

JsError(class, msg, args) == [class |-> class, msg |-> msg, args |-> args]

\* new Error('Job ' + jobName + ' does not have a worker assigned to it.')
NoWorkerError(jobName) == JsError("Error", "Job _ does not have a worker assigned to it.", <<jobName>>)
\* new Error('Job name and associated worker function must be supplied.')
MissingArgError == JsError("Error", "Job name and associated worker function must be supplied.", <<>>)
\* new Error('TIMEOUT: Job id: ' + jobId + ' timed out in ' + jobTimeout + 'ms.')
TimeoutError(jobId, jobTimeout) == JsError("Error", "TIMEOUT: Job id: _ timed out in _ms.", <<jobId, jobTimeout>>)
\* Reading a property of undefined.
TypeError == JsError("TypeError", "Cannot read properties of undefined", <<>>)
\* JSON.parse of a string that is not JSON.
SyntaxError == JsError("SyntaxError", "Unexpected token in JSON", <<>>)

---------------------------------------------------------------------------
(* The inputs *)

\* Names a worker is registered under, and the names looked up.  "constructor"
\* is never registered: it is a property Worker.workers inherits from
\* Object.prototype, the workers object being a plain {}.
JobNames == {"a", "b"}
InheritedNames == {"constructor"}
LookupNames == JobNames \cup InheritedNames

\* Handler functions of the application.
Handlers == {"h1", "h2"}
\* Function objects: the handlers and the inherited Object constructor.
Functions == Handlers \cup {"Object"}

OptionNames == {"concurrency", "isJobRunnable", "failureBehavior",
                "minimumMillisBetweenAttempts", "onStart", "onSuccess",
                "onSkipped", "onFailure", "onFailed", "onComplete"}
CallbackNames == {"onStart", "onSuccess", "onSkipped", "onFailure", "onFailed", "onComplete"}

\* What a caller may supply for an option (undefined: the option is omitted).
OptionInputs(o) ==
    CASE o = "concurrency" -> {Undef, Num(0), Num(2)}
      [] o = "isJobRunnable" -> {Undef, Fn("isRunnable")}
      [] o = "failureBehavior" -> {Undef, Str("custom")}
      [] o = "minimumMillisBetweenAttempts" -> {Undef, Num(0), Num(5)}
      [] OTHER -> {Undef, Fn("cb")}

EmptyOptions == [o \in OptionNames |-> Undef]
FullOptions ==
    [o \in OptionNames |->
        CASE o = "concurrency" -> Num(2)
          [] o = "isJobRunnable" -> Fn("isRunnable")
          [] o = "failureBehavior" -> Str("custom")
          [] o = "minimumMillisBetweenAttempts" -> Num(5)
          [] OTHER -> Fn("cb")]

\* The options objects of the model: nothing supplied, one option supplied,
\* every option supplied.
OptionBags ==
    UNION {{[EmptyOptions EXCEPT ![o] = v] : v \in OptionInputs(o)} : o \in OptionNames}
    \cup {FullOptions}

---------------------------------------------------------------------------
(* The registry: Worker.workers and the options attached to the functions *)

\* A call of the registry as its caller saw it: the operation, its arguments
\* and its completion; for a registration also what was registered under the
\* name before the call.
NoCall ==
    [op |-> "none", name |-> Undef, worker |-> Undef, options |-> Undef,
     job |-> Undef, replaced |-> Undef, result |-> Return(Undef)]
Called(op, name, worker, options, result) ==
    [op |-> op, name |-> name, worker |-> worker, options |-> options,
     job |-> Undef, replaced |-> Undef, result |-> result]

\* Worker.workers[jobName]: an own property, else one inherited from
\* Object.prototype, else undefined.
WorkersGet(jobName) ==
    IF jobName \in DOMAIN workers THEN Fn(workers[jobName])
    ELSE IF jobName \in InheritedNames THEN Fn("Object")
    ELSE Undef

\* const defaultIsJobRunnable = (job) => ({ runnable: true });
DefaultIsJobRunnable == Fn("defaultIsJobRunnable")

\* The options object literal addWorker builds.
BuildOptionsNoFallback(options) ==
    [o \in OptionNames |-> options[o]]

BuildOptions(options) ==
    [o \in OptionNames |->
        CASE o = "concurrency" -> JsOr(options[o], Num(1))
          [] o = "isJobRunnable" -> JsOr(options[o], DefaultIsJobRunnable)
          [] o = "failureBehavior" -> JsOr(options[o], Str("standard"))
          [] o = "minimumMillisBetweenAttempts" -> JsOr(options[o], Num(0))
          [] OTHER -> JsOr(options[o], Null)]

\* Worker.workers[jobName] = worker
WorkersPut(jobName, worker) ==
    [n \in DOMAIN workers \cup {jobName} |-> IF n = jobName THEN worker ELSE workers[n]]

\* What is registered under a name that can be registered: undefined when nothing is.
Registered(jobName) ==
    IF jobName.t = "string" /\ jobName.v \in DOMAIN workers THEN Fn(workers[jobName.v]) ELSE Undef

AddWorkerMerges(jobName, worker, options) ==
    IF ~Truthy(jobName) \/ ~Truthy(worker)
    THEN /\ ret' = Called("addWorker", jobName, worker, options, Throw(MissingArgError))
         /\ UNCHANGED <<workers, fnOptions, calls, dispatches, cbCalls>>
    ELSE LET given == IF options = Undef THEN EmptyOptions ELSE options
             old == IF Registered(jobName) = Undef THEN EmptyOptions
                    ELSE fnOptions[workers[jobName.v]].v
         IN  /\ fnOptions' = [fnOptions EXCEPT ![worker.v] =
                    Obj(BuildOptions([o \in OptionNames |-> JsOr(given[o], old[o])]))]
             /\ workers' = WorkersPut(jobName.v, worker.v)
             /\ ret' = [Called("addWorker", jobName, worker, options, Return(Undef))
                            EXCEPT !.replaced = Registered(jobName)]
             /\ UNCHANGED <<calls, dispatches, cbCalls>>

\* addWorker(jobName, worker, options = {})
AddWorker(jobName, worker, options) ==
    IF ~Truthy(jobName) \/ ~Truthy(worker)
    THEN /\ ret' = Called("addWorker", jobName, worker, options, Throw(MissingArgError))
         /\ UNCHANGED <<workers, fnOptions, calls, dispatches, cbCalls>>
    ELSE /\ fnOptions' = [fnOptions EXCEPT ![worker.v] =
                            Obj(BuildOptions(IF options = Undef THEN EmptyOptions ELSE options))]
         /\ workers' = WorkersPut(jobName.v, worker.v)
         /\ ret' = [Called("addWorker", jobName, worker, options, Return(Undef))
                        EXCEPT !.replaced = Registered(jobName)]
         /\ UNCHANGED <<calls, dispatches, cbCalls>>

RemoveWorkerAborts(jobName) ==
    /\ workers' = [n \in DOMAIN workers \ {jobName} |-> workers[n]]
    /\ ret' = Called("removeWorker", Str(jobName), Undef, Undef, Return(Undef))
    /\ calls' = [c \in DOMAIN calls |->
                    IF calls[c].outcome.kind = "pending" /\ calls[c].jobName = Str(jobName)
                    THEN [calls[c] EXCEPT !.outcome =
                            [kind |-> "rejected", error |-> NoWorkerError(Str(jobName))]]
                    ELSE calls[c]]
    /\ UNCHANGED <<fnOptions, dispatches, cbCalls>>

\* removeWorker(jobName)
RemoveWorker(jobName) ==
    /\ workers' = [n \in DOMAIN workers \ {jobName} |-> workers[n]]
    /\ ret' = Called("removeWorker", Str(jobName), Undef, Undef, Return(Undef))
    /\ UNCHANGED <<fnOptions, calls, dispatches, cbCalls>>

\* x.p: a TypeError when x is undefined or null; the options property of a
\* function object; a field of an object literal; undefined otherwise.
Member(x, p) ==
    IF x.t \in {"undefined", "null"} THEN Throw(TypeError)
    ELSE IF x.t = "function" /\ p = "options" THEN Return(fnOptions[x.v])
    ELSE IF x.t = "object" /\ p \in DOMAIN x.v THEN Return(x.v[p])
    ELSE Return(Undef)

\* getWorkerOptions(jobName): Worker.workers[jobName].options
getWorkerOptions(jobName) == Member(WorkersGet(jobName), "options")

\* The guard every other accessor starts with, then
\* Worker.workers[jobName].options.<option>
getOption(jobName, option) ==
    IF ~Truthy(WorkersGet(jobName)) THEN Throw(NoWorkerError(Str(jobName)))
    ELSE Member(Member(WorkersGet(jobName), "options").value, option)

\* getConcurrency(jobName)
getConcurrency(jobName) == getOption(jobName, "concurrency")

\* getMinimumMillisBetweenAttempts(jobName)
getMinimumMillisBetweenAttempts(jobName) ==
    LET r == getOption(jobName, "minimumMillisBetweenAttempts")
    IN  IF r.kind = "throw" THEN r ELSE Return(ParseInt(r.value))

\* getFailureBehavior(jobName)
getFailureBehavior(jobName) ==
    LET r == getOption(jobName, "failureBehavior")
    IN  IF r.kind = "throw" THEN r ELSE Return(JsOr(r.value, Null))



---------------------------------------------------------------------------
(* Jobs *)

MaxTimeout == 1
MaxCalls == 1

JobIds == {"j1"}
\* Payload strings: "7" is JSON, "{bad" is not.
Payloads == {"7", "{bad"}
Timeouts == {Undef} \cup {Num(n) : n \in 0..MaxTimeout}

\* The caller's job object (a realm row): id, name, payload, timeout.
JobViews ==
    {[id |-> Str(i), name |-> Str(n), timeout |-> t, payload |-> Str(p)] :
        i \in JobIds, n \in LookupNames, t \in Timeouts, p \in Payloads}

JSONParseLenient(text) ==
    CASE text = Str("7") -> Return(Num(7))
      [] OTHER -> Return(Undef)

\* JSON.parse(text) on the payload strings of the model.
JSONParse(text) ==
    CASE text = Str("7") -> Return(Num(7))
      [] text = Str("null") -> Return(Null)
      [] text = Str("[]") -> Return(Obj(<<>>))
      [] OTHER -> Throw(SyntaxError)

\* The application's isJobRunnable predicate: what it answers is its own
\* business; this one refuses jobs with a timeout and throws on a payload
\* it cannot read.
PredicateError == JsError("Error", "isJobRunnable failed", <<>>)
UserIsJobRunnable(job) ==
    IF JSONParse(job.payload).kind = "throw" THEN Throw(PredicateError)
    ELSE IF JsGtZero(job.timeout)
         THEN Return(Obj([runnable |-> FALSE, reason |-> "has a timeout"]))
         ELSE Return(Obj([runnable |-> TRUE, reason |-> "none"]))

\* f(job) for the function values an isJobRunnable option can hold.
CallPredicate(f, job) ==
    IF f = DefaultIsJobRunnable THEN Return(Obj([runnable |-> TRUE]))
    ELSE UserIsJobRunnable(job)

\* execIsJobRunnable(jobName, job)
execIsJobRunnable(jobName, job) ==
    LET isJobRunnable == getOption(jobName, "isJobRunnable")
    IN  IF isJobRunnable.kind = "throw" THEN isJobRunnable
        ELSE IF Truthy(isJobRunnable.value) /\ isJobRunnable.value.t = "function"
             THEN CallPredicate(isJobRunnable.value, job)
             ELSE Return(Obj([runnable |-> TRUE]))

\* The accessors as calls: the caller sees the completion.
Lookup(op, jobName, job) ==
    /\ ret' = [Called(op, Str(jobName), Undef, Undef,
                CASE op = "getWorkerOptions" -> getWorkerOptions(jobName)
                  [] op = "getConcurrency" -> getConcurrency(jobName)
                  [] op = "getMinimumMillisBetweenAttempts" -> getMinimumMillisBetweenAttempts(jobName)
                  [] op = "getFailureBehavior" -> getFailureBehavior(jobName)
                  [] op = "execIsJobRunnable" -> execIsJobRunnable(jobName, job))
                EXCEPT !.job = job]
    /\ UNCHANGED <<workers, fnOptions, calls, dispatches, cbCalls>>

LookupOps == {"getWorkerOptions", "getConcurrency", "getMinimumMillisBetweenAttempts",
              "getFailureBehavior", "execIsJobRunnable"}

---------------------------------------------------------------------------
(* executeJob *)

Calls == 1..MaxCalls

NoTimer == [state |-> "none", delay |-> Undef]
NoHandler ==
    [fn |-> Undef, args |-> <<>>, behaviour |-> "none", state |-> "none", invocations |-> 0,
     sawTimer |-> "none"]
NoOutcome == [kind |-> "none", error |-> Undef]
Pending == [kind |-> "pending", error |-> Undef]
Resolved == [kind |-> "resolved", error |-> Undef]
Rejected(e) == [kind |-> "rejected", error |-> e]

NotCalled ==
    [job |-> Undef, live |-> Undef, checked |-> Undef, jobId |-> Undef, jobName |-> Undef, jobTimeout |-> Undef,
     jobPayload |-> Undef, timer |-> NoTimer, handler |-> NoHandler,
     raced |-> FALSE, outcome |-> NoOutcome, unhandled |-> FALSE]

\* What a handler does when invoked is the application's business: it throws
\* before returning a promise, or returns a promise that resolves, rejects or
\* never settles.  The inherited Object constructor returns a value at once.
HandlerError == JsError("Error", "handler failed", <<>>)
Behaviours(fn) ==
    IF fn.t # "function" THEN {}
    ELSE IF fn.v \in Handlers THEN {"throws", "resolves", "rejects", "never"}
    ELSE {"returns"}

\* setTimeout(() => reject(...), jobTimeout) inside the executor of
\* timeoutPromise.
ArmTimer(jobTimeout) == [state |-> "armed", delay |-> jobTimeout]

\* Worker.workers[jobName](jobId, jobPayload) with the behaviour the handler
\* shows; sawTimer is the state of the call's timer when the handler starts.
Invoke(fn, jobId, jobPayload, behaviour) ==
    [fn |-> fn, args |-> <<jobId, jobPayload>>, behaviour |-> behaviour,
     state |-> CASE behaviour = "throws" -> "threw"
                 [] behaviour = "returns" -> "resolved"
                 [] OTHER -> "pending",
     invocations |-> 1,
     sawTimer |-> "none"]

ExecuteJobRunInvokesFirst(job, behaviour) ==
    LET called == [NotCalled EXCEPT !.job = job, !.live = job,
                                    !.checked = WorkersGet(job.name.v)]
        decoded == JSONParse(job.payload)
        locals == [called EXCEPT !.jobId = job.id, !.jobName = job.name,
                                 !.jobTimeout = job.timeout]
        invoked == Invoke(WorkersGet(job.name.v), job.id, decoded.value, behaviour)
        settled == CASE invoked.state = "threw" -> Rejected(HandlerError)
                     [] invoked.state = "resolved" -> Resolved
                     [] OTHER -> Pending
    IN  IF ~Truthy(called.checked)
        THEN [called EXCEPT !.outcome = Rejected(NoWorkerError(job.name))]
        ELSE IF decoded.kind = "throw"
        THEN [locals EXCEPT !.outcome = Rejected(decoded.error)]
        ELSE IF JsGtZero(job.timeout) /\ invoked.state # "threw"
        THEN [locals EXCEPT !.jobPayload = decoded.value,
                            !.timer = ArmTimer(job.timeout),
                            !.handler = invoked,
                            !.raced = TRUE,
                            !.outcome = settled]
        ELSE [locals EXCEPT !.jobPayload = decoded.value,
                            !.handler = invoked,
                            !.outcome = settled]

\* The call up to its first suspension: the guard, the local copies, the
\* decoding, the timer and the handler's invocation are one synchronous run.
\* An exception in an async function rejects the promise it returned.
\* job is the caller's object as it is when the call is made; live is that
\* object as it is now.
ExecuteJobRun(job, behaviour) ==
    LET called == [NotCalled EXCEPT !.job = job, !.live = job,
                                    !.checked = WorkersGet(job.name.v)]
        decoded == JSONParse(job.payload)
        locals == [called EXCEPT !.jobId = job.id, !.jobName = job.name,
                                 !.jobTimeout = job.timeout]
        jobId == job.id
        jobName == job.name
        jobTimeout == job.timeout
        timer == IF JsGtZero(jobTimeout) THEN ArmTimer(jobTimeout) ELSE NoTimer
        worker == WorkersGet(jobName.v)
        invoked == [Invoke(worker, jobId, decoded.value, behaviour)
                        EXCEPT !.sawTimer = timer.state]
        settled == CASE invoked.state = "threw" -> Rejected(HandlerError)
                     [] invoked.state = "resolved" -> Resolved
                     [] OTHER -> Pending
    IN  IF ~Truthy(called.checked)
        THEN [called EXCEPT !.outcome = Rejected(NoWorkerError(job.name))]
        ELSE IF decoded.kind = "throw"
        THEN [locals EXCEPT !.outcome = Rejected(decoded.error)]
        ELSE IF JsGtZero(jobTimeout)
        THEN [locals EXCEPT !.jobPayload = decoded.value,
                            !.timer = timer,
                            !.handler = invoked,
                            !.raced = invoked.state # "threw",
                            !.outcome = settled]
        ELSE [locals EXCEPT !.jobPayload = decoded.value,
                            !.handler = invoked,
                            !.outcome = settled]

ExecuteJobFiresOnStart(c, job) ==
    /\ calls[c] = NotCalled
    /\ \E behaviour \in Behaviours(WorkersGet(job.name.v)) \cup {"none"} :
          /\ behaviour = "none" <=>
                (~Truthy(WorkersGet(job.name.v)) \/ JSONParse(job.payload).kind = "throw")
          /\ calls' = [calls EXCEPT ![c] = ExecuteJobRun(job, behaviour)]
          /\ LET options == Member(WorkersGet(job.name.v), "options")
             IN  cbCalls' = IF behaviour \in {"none", "returns"} THEN cbCalls
                            ELSE IF Truthy(options.value.v["onStart"])
                            THEN [cbCalls EXCEPT !["onStart"] = @ + 1]
                            ELSE cbCalls
    /\ UNCHANGED <<workers, fnOptions, ret, dispatches>>

\* async executeJob(job)
ExecuteJob(c, job) ==
    /\ calls[c] = NotCalled
    /\ \E behaviour \in Behaviours(WorkersGet(job.name.v)) \cup {"none"} :
          /\ behaviour = "none" <=>
                (~Truthy(WorkersGet(job.name.v)) \/ JSONParse(job.payload).kind = "throw")
          /\ calls' = [calls EXCEPT ![c] = ExecuteJobRun(job, behaviour)]
    /\ UNCHANGED <<workers, fnOptions, ret, dispatches, cbCalls>>

\* The caller's job object after the call was made: a realm row that was
\* deleted or rewritten reads differently in every property.
Invalidated(job) ==
    [id |-> Str("gone"), name |-> Str("gone"),
     timeout |-> IF job.timeout = Undef THEN Num(1) ELSE Num(job.timeout.v + 1),
     payload |-> Str("{bad")]

\* The caller changes or invalidates the job object while the call is in
\* flight, that is while its timer is armed or its await has not resumed.
MutateJob(c) ==
    /\ calls[c].timer.state = "armed" \/ calls[c].outcome = Pending
    /\ calls[c].live = calls[c].job
    /\ calls' = [calls EXCEPT ![c].live = Invalidated(calls[c].job)]
    /\ UNCHANGED <<workers, fnOptions, ret, dispatches, cbCalls>>

\* The promise the handler returned settles.  The race, and with it the call,
\* settles with it unless it has settled already.
HandlerSettle(c) ==
    /\ calls[c].handler.state = "pending"
    /\ calls[c].handler.behaviour \in {"resolves", "rejects"}
    /\ LET resolves == calls[c].handler.behaviour = "resolves"
       IN  calls' = [calls EXCEPT
                ![c].handler.state = IF resolves THEN "resolved" ELSE "rejected",
                ![c].outcome = IF calls[c].outcome # Pending THEN calls[c].outcome
                               ELSE IF resolves THEN Resolved
                               ELSE Rejected(HandlerError)]
    /\ UNCHANGED <<workers, fnOptions, ret, dispatches, cbCalls>>

\* The timer fires: its callback builds the error from the call's local copies
\* and rejects timeoutPromise.  The race, when there is one and it has not
\* settled, rejects with that error; with no race nothing observes the
\* rejection.
TimerFireOverwrites(c) ==
    /\ calls[c].timer.state = "armed"
    /\ calls' = [calls EXCEPT
            ![c].timer.state = "fired",
            ![c].outcome = Rejected(TimeoutError(calls[c].jobId, calls[c].jobTimeout)),
            ![c].unhandled = ~calls[c].raced]
    /\ UNCHANGED <<workers, fnOptions, ret, dispatches, cbCalls>>

TimerFireNamesJob(c) ==
    /\ calls[c].timer.state = "armed"
    /\ calls' = [calls EXCEPT
            ![c].timer.state = "fired",
            ![c].outcome = IF calls[c].raced /\ calls[c].outcome = Pending
                           THEN Rejected(TimeoutError(calls[c].jobName, calls[c].jobTimeout))
                           ELSE calls[c].outcome,
            ![c].unhandled = ~calls[c].raced]
    /\ UNCHANGED <<workers, fnOptions, ret, dispatches, cbCalls>>

TimerFireLost(c) ==
    /\ calls[c].timer.state = "armed"
    /\ calls' = [calls EXCEPT ![c].timer.state = "fired"]
    /\ UNCHANGED <<workers, fnOptions, ret, dispatches, cbCalls>>

TimerFireReadsJob(c) ==
    /\ calls[c].timer.state = "armed"
    /\ calls' = [calls EXCEPT
            ![c].timer.state = "fired",
            ![c].outcome = IF calls[c].raced /\ calls[c].outcome = Pending
                           THEN Rejected(TimeoutError(calls[c].live.id, calls[c].live.timeout))
                           ELSE calls[c].outcome,
            ![c].unhandled = ~calls[c].raced]
    /\ UNCHANGED <<workers, fnOptions, ret, dispatches, cbCalls>>

TimerFire(c) ==
    /\ calls[c].timer.state = "armed"
    /\ calls' = [calls EXCEPT
            ![c].timer.state = "fired",
            ![c].outcome = IF calls[c].raced /\ calls[c].outcome = Pending
                           THEN Rejected(TimeoutError(calls[c].jobId, calls[c].jobTimeout))
                           ELSE calls[c].outcome,
            ![c].unhandled = ~calls[c].raced]
    /\ UNCHANGED <<workers, fnOptions, ret, dispatches, cbCalls>>

---------------------------------------------------------------------------
(* executeJobLifecycleCallback *)

Dispatches == 1..MaxCalls

\* const validCallbacks = ['onStart', 'onSuccess', 'onSkipped', 'onFailure', 'onFailed', 'onComplete']
validCallbacks == {"onStart", "onSuccess", "onSkipped", "onFailure", "onFailed", "onComplete"}

\* Callback names a caller may pass that are not lifecycle callbacks: no name,
\* a misspelt name, the name of an option that is not a callback.
InvalidCallbackNames == {Undef, Str("onstart"), Str("concurrency")}

\* new Error('Invalid job lifecycle callback name.')
InvalidCallbackError == JsError("Error", "Invalid job lifecycle callback name.", <<>>)
\* Calling a value that is not a function.
NotCallableError == JsError("TypeError", "is not a function", <<>>)
\* What the application's callback throws or rejects with.
CallbackError == JsError("Error", "callback failed", <<>>)

NoCallback == [fn |-> Undef, args |-> <<>>, behaviour |-> "none", state |-> "none", invocations |-> 0]

NotDispatched ==
    [callbackName |-> Undef, jobName |-> Undef, jobId |-> Undef, jobPayload |-> Undef,
     worker |-> Undef, callback |-> NoCallback, outcome |-> NoOutcome, console |-> <<>>]

\* What a callback does when invoked is the application's business, as for a
\* handler.  A value that is no function cannot be called.
CallbackBehaviours(callback) ==
    IF ~Truthy(callback) THEN {}
    ELSE IF callback.t = "function" THEN {"throws", "resolves", "rejects", "never"}
    ELSE {"notcallable"}

\* validCallbacks.includes(callbackName)
ValidCallbackLoose(callbackName) ==
    callbackName.t = "string" /\ callbackName.v \in OptionNames

ValidCallback(callbackName) ==
    callbackName.t = "string" /\ callbackName.v \in validCallbacks

\* Worker.workers[jobName].options[callbackName]
ConfiguredCallback(jobName, callbackName) ==
    LET options == Member(WorkersGet(jobName), "options")
    IN  IF options.kind = "throw" THEN options
        ELSE Member(options.value, callbackName.v)

\* The call up to its first suspension: the validation, the lookup of the
\* callback and its invocation inside the try block.  What the callback
\* throws is caught and written to the console.  worker is what the call
\* found under jobName.
ExecuteJobLifecycleCallbackRun(callbackName, jobName, jobId, jobPayload, behaviour) ==
    LET called == [NotDispatched EXCEPT !.callbackName = callbackName, !.jobName = Str(jobName),
                                        !.jobId = jobId, !.jobPayload = jobPayload,
                                        !.worker = IF ValidCallback(callbackName)
                                                   THEN WorkersGet(jobName) ELSE Undef]
        callback == ConfiguredCallback(jobName, callbackName)
        invocation == [fn |-> callback.value, args |-> <<jobId, jobPayload>>,
                       behaviour |-> behaviour,
                       state |-> IF behaviour \in {"throws", "notcallable"} THEN "threw"
                                 ELSE "pending",
                       invocations |-> IF behaviour = "notcallable" THEN 0 ELSE 1]
    IN  IF ~ValidCallback(callbackName)
        THEN [called EXCEPT !.outcome = Rejected(InvalidCallbackError)]
        ELSE IF callback.kind = "throw"
        THEN [called EXCEPT !.outcome = Rejected(callback.error)]
        ELSE IF ~Truthy(callback.value)
        THEN [called EXCEPT !.outcome = Resolved]
        ELSE IF invocation.state = "threw"
        THEN [called EXCEPT !.callback = invocation,
                            !.console = <<IF behaviour = "throws" THEN CallbackError
                                          ELSE NotCallableError>>,
                            !.outcome = Resolved]
        ELSE [called EXCEPT !.callback = invocation, !.outcome = Pending]

\* async executeJobLifecycleCallback(callbackName, jobName, jobId, jobPayload)
ExecuteJobLifecycleCallback(d, callbackName, jobName, jobId, jobPayload) ==
    /\ dispatches[d] = NotDispatched
    /\ LET callback == IF ValidCallback(callbackName)
                       THEN ConfiguredCallback(jobName, callbackName)
                       ELSE Throw(InvalidCallbackError)
           behaviours == IF callback.kind = "throw" THEN {}
                         ELSE CallbackBehaviours(callback.value)
       IN  \E behaviour \in behaviours \cup {"none"} :
              /\ behaviour = "none" <=> behaviours = {}
              /\ LET run == ExecuteJobLifecycleCallbackRun(callbackName, jobName, jobId,
                                                           jobPayload, behaviour)
                 IN  /\ dispatches' = [dispatches EXCEPT ![d] = run]
                     /\ cbCalls' = IF run.callback.invocations > 0
                                   THEN [cbCalls EXCEPT ![callbackName.v] = @ + 1]
                                   ELSE cbCalls
    /\ UNCHANGED <<workers, fnOptions, ret, calls>>

\* The promise the callback returned settles: the await resumes the call,
\* which resolves; a rejection is caught and written to the console first.
CallbackSettleUncaught(d) ==
    /\ dispatches[d].callback.state = "pending"
    /\ dispatches[d].callback.behaviour \in {"resolves", "rejects"}
    /\ LET resolves == dispatches[d].callback.behaviour = "resolves"
       IN  dispatches' = [dispatches EXCEPT
                ![d].callback.state = IF resolves THEN "resolved" ELSE "rejected",
                ![d].outcome = IF resolves THEN Resolved ELSE Rejected(CallbackError)]
    /\ UNCHANGED <<workers, fnOptions, ret, calls, cbCalls>>

CallbackSettle(d) ==
    /\ dispatches[d].callback.state = "pending"
    /\ dispatches[d].callback.behaviour \in {"resolves", "rejects"}
    /\ LET resolves == dispatches[d].callback.behaviour = "resolves"
       IN  dispatches' = [dispatches EXCEPT
                ![d].callback.state = IF resolves THEN "resolved" ELSE "rejected",
                ![d].console = IF resolves THEN @ ELSE Append(@, CallbackError),
                ![d].outcome = Resolved]
    /\ UNCHANGED <<workers, fnOptions, ret, calls, cbCalls>>

---------------------------------------------------------------------------
(* Specifications *)

Init ==
    /\ workers = <<>>
    /\ fnOptions = [f \in Functions |-> Undef]
    /\ ret = NoCall
    /\ calls = [c \in Calls |-> NotCalled]
    /\ dispatches = [d \in Dispatches |-> NotDispatched]
    /\ cbCalls = [callbackName \in validCallbacks |-> 0]

\* The registry alone, with every options object of the model.
Register ==
    \E jobName \in JobNames, worker \in Handlers, options \in OptionBags \cup {Undef} :
        AddWorker(Str(jobName), Fn(worker), options)

\* Registrations the validation refuses: no name, an empty name, no worker.
RegisterInvalid ==
    \E args \in {<<Undef, Fn("h1")>>, <<Str(""), Fn("h1")>>, <<Str("a"), Undef>>} :
        AddWorker(args[1], args[2], EmptyOptions)

Unregister == \E jobName \in LookupNames : RemoveWorker(jobName)

\* The jobs handed to execIsJobRunnable.
RunnableJobs == {job \in JobViews : job.name = Str("a") /\ job.timeout # Undef}

Access ==
    \E op \in LookupOps, jobName \in LookupNames :
        \E job \in IF op = "execIsJobRunnable" THEN RunnableJobs ELSE {Undef} :
            Lookup(op, jobName, job)

RegistryNext == Register \/ RegisterInvalid \/ Unregister \/ Access

RegistrySpec == Init /\ [][RegistryNext]_vars

\* Execution, with the registry changing under it.
ExecNames == {"a"}

Setup == \E worker \in Handlers : AddWorker(Str("a"), Fn(worker), EmptyOptions)

Teardown == \E jobName \in ExecNames : RemoveWorker(jobName)

Execute == \E c \in Calls, job \in JobViews : ExecuteJob(c, job)

Settle == \E c \in Calls : HandlerSettle(c)

Fire == \E c \in Calls : TimerFire(c)

Next == Setup \/ Teardown \/ Execute \/ Settle \/ Fire

Spec == Init /\ [][Next]_vars

\* Execution and lookups, with the registry changing under them.
AccessNext == Access \/ Next

AccessSpec == Init /\ [][AccessNext]_vars

\* Execution, with the caller changing the job objects it passed.
Mutate == \E c \in Calls : MutateJob(c)

MutationNext == Mutate \/ Next

MutationSpec == Init /\ [][MutationNext]_vars

\* The lifecycle callbacks, with the registry changing under them.
CallbackOptions ==
    {EmptyOptions, FullOptions, [EmptyOptions EXCEPT !["onFailure"] = Fn("cb")]}

SetupCallbacks == \E options \in CallbackOptions : AddWorker(Str("a"), Fn("h1"), options)

Dispatch ==
    \E d \in Dispatches, jobName \in LookupNames, jobId \in JobIds :
        \E callbackName \in {Str(n) : n \in validCallbacks} \cup InvalidCallbackNames :
            ExecuteJobLifecycleCallback(d, callbackName, jobName, Str(jobId), Num(7))

SettleCallback == \E d \in Dispatches : CallbackSettle(d)

DispatchNext == SetupCallbacks \/ Teardown \/ Dispatch \/ SettleCallback

DispatchSpec == Init /\ [][DispatchNext]_vars

\* Execution for workers registered with lifecycle callbacks.
LifecycleNext == SetupCallbacks \/ Teardown \/ Execute \/ Settle \/ Fire

LifecycleSpec == Init /\ [][LifecycleNext]_vars

\* Timers fire and a promise that settles does settle: the event loop runs.
FairSpec ==
    /\ Spec
    /\ \A c \in Calls : WF_vars(TimerFire(c)) /\ WF_vars(HandlerSettle(c))

---------------------------------------------------------------------------
(* Properties of executeJob *)

Started(c) == calls[c] # NotCalled
Settled(c) == calls[c].outcome.kind \in {"resolved", "rejected"}
\* The call got past the guard: a worker was found under job.name.
Admitted(c) == Started(c) /\ Truthy(calls[c].checked)
TimedOut(c) == Started(c) /\ calls[c].outcome = Rejected(TimeoutError(calls[c].job.id, calls[c].job.timeout))
HandlerSettled(c) == calls[c].handler.state \in {"resolved", "rejected", "threw"}
HandlerOutcome(c) ==
    IF calls[c].handler.state = "resolved" THEN Resolved ELSE Rejected(HandlerError)
DefiniteOutcomes(c) ==
    {Resolved, Rejected(HandlerError), Rejected(SyntaxError),
     Rejected(TimeoutError(calls[c].job.id, calls[c].job.timeout))}
OutcomeKept == \A c \in Calls : Settled(c) => calls'[c].outcome = calls[c].outcome

\* C1, as claimed: every executeJob call that found a worker eventually
\* settles, whatever the handler does.
C1_EveryCallSettles ==
    \A c \in Calls : Admitted(c) ~> Settled(c)

\* C1, amended: every executeJob call that found a worker and has a timeout
\* above 0, or whose handler throws or settles, eventually settles with one
\* of the definite outcomes, and the outcome it settled with is never replaced.
C1_CallWithDeadlineOrSettlingHandlerSettles ==
    /\ \A c \in Calls :
          (Admitted(c) /\ (JsGtZero(calls[c].job.timeout) \/ calls[c].handler.behaviour # "never"))
              ~> (Settled(c) /\ calls[c].outcome \in DefiniteOutcomes(c))
    /\ [][OutcomeKept]_vars

C1_NeverSettlingHandlerTimedOut ==
    \E c \in Calls :
        /\ calls[c].handler.behaviour = "never"
        /\ calls[c].handler.state = "pending"
        /\ TimedOut(c)

\* C2, as claimed: a call that invoked a registered handler and has settled
\* has no timer still armed, whether the handler resolved, rejected or threw.
C2_NoTimerArmedOnceSettled ==
    \A c \in Calls :
        (Settled(c) /\ calls[c].handler.fn \in {Fn(h) : h \in Handlers})
        => calls[c].timer.state # "armed"

\* C3: a call with timeout T > 0 whose handler never settles eventually
\* rejects with the timeout error naming the job's id and T, and a call is
\* rejected with that error only once its timer has fired.
C3_TimeoutRejectsAfterTimerFired ==
    /\ \A c \in Calls :
          (Admitted(c) /\ JsGtZero(calls[c].job.timeout) /\ calls[c].handler.behaviour = "never")
              ~> TimedOut(c)
    /\ [](\A c \in Calls :
            (calls[c].outcome.kind = "rejected" /\ calls[c].outcome.error.class = "Error"
                /\ calls[c].outcome.error.msg = TimeoutError(Undef, Undef).msg)
            => calls[c].timer.state = "fired" /\ TimedOut(c))

C3_TimerFiredOnPendingHandler ==
    \E c \in Calls :
        /\ Started(c)
        /\ calls[c].job.timeout = Num(1)
        /\ calls[c].handler.behaviour = "never"
        /\ calls[c].timer.state = "fired"
        /\ calls[c].outcome.kind = "rejected"

\* C4: with a timeout above 0, a handler that settles (or throws) while the
\* timer is still armed decides the outcome: resolved, or rejected with the
\* handler's own error, not a timeout; and no later timer firing or handler
\* settlement changes an outcome once the call has settled.
C4_FirstToSettleDecides ==
    /\ [](\A c \in Calls :
            (calls[c].timer.state = "armed" /\ HandlerSettled(c))
            => calls[c].outcome = HandlerOutcome(c))
    /\ [][OutcomeKept]_vars

C4_TimerFiredAfterHandlerResolved ==
    \E c \in Calls :
        /\ Started(c)
        /\ JsGtZero(calls[c].job.timeout)
        /\ calls[c].timer.state = "fired"
        /\ calls[c].handler.behaviour = "resolves"
        /\ calls[c].handler.state = "resolved"
        /\ calls[c].outcome = Resolved

\* C5: a call whose job.timeout is 0 or unset arms no timer, and is not
\* settled while the handler it invoked has not settled.
C5_NoTimeoutWaitsForHandler ==
    \A c \in Calls :
        (Started(c) /\ calls[c].job.timeout \in {Undef, Num(0)})
        => /\ calls[c].timer = NoTimer
           /\ (calls[c].handler.state = "pending" => calls[c].outcome = Pending)
           /\ (Settled(c) /\ calls[c].handler.invocations > 0 => calls[c].outcome = HandlerOutcome(c))

C5_ResolvedAfterHandlerWithoutTimeout ==
    \E c \in Calls :
        /\ Started(c)
        /\ calls[c].job.timeout = Num(0)
        /\ calls[c].handler.behaviour = "resolves"
        /\ calls[c].handler.state = "resolved"
        /\ calls[c].outcome = Resolved

\* C6: a call whose payload string cannot be decoded never invokes the
\* handler and arms no timer, and, its worker found, rejects with the
\* decoder's error.
C6_UndecodablePayloadRejects ==
    \A c \in Calls :
        (Started(c) /\ calls[c].job.payload = Str("{bad"))
        => /\ calls[c].handler = NoHandler
           /\ calls[c].timer = NoTimer
           /\ (Admitted(c) => calls[c].outcome = Rejected(SyntaxError))

C6_RejectedUndecodablePayload ==
    \E c \in Calls :
        /\ Admitted(c)
        /\ calls[c].job.payload = Str("{bad")
        /\ calls[c].job.timeout = Num(1)
        /\ calls[c].outcome = Rejected(SyntaxError)

\* The error of a timeout, whatever id and timeout it names.
IsTimeoutError(e) == e # Undef /\ e.class = "Error" /\ e.msg = TimeoutError(Undef, Undef).msg

\* C16: whatever the caller does to the job object once the call awaits, the
\* handler's arguments are the id and the decoded payload the job had when the
\* call was made, the timer's delay is the timeout it had, and a timeout
\* error names that id and that timeout.
C16_JobReadOnlyBeforeAwait ==
    \A c \in Calls :
        Started(c)
        => /\ calls[c].handler.invocations > 0
                => calls[c].handler.args =
                      <<calls[c].job.id, JSONParse(calls[c].job.payload).value>>
           /\ calls[c].timer.state # "none" => calls[c].timer.delay = calls[c].job.timeout
           /\ (calls[c].outcome.kind = "rejected" /\ IsTimeoutError(calls[c].outcome.error))
                => calls[c].outcome.error =
                      TimeoutError(calls[c].job.id, calls[c].job.timeout)

C16_TimedOutAfterJobInvalidated ==
    \E c \in Calls :
        /\ Started(c)
        /\ calls[c].live = Invalidated(calls[c].job)
        /\ calls[c].handler.behaviour = "never"
        /\ calls[c].handler.args = <<Str("j1"), Num(7)>>
        /\ TimedOut(c)

\* C17: a call with a timeout above 0 that has invoked its handler armed
\* its timer first: the handler started with the timer armed, and the timer
\* is armed or has fired in every state in which the handler has been invoked.
C17_TimerArmedBeforeHandlerStarts ==
    \A c \in Calls :
        (Started(c) /\ JsGtZero(calls[c].job.timeout) /\ calls[c].handler.invocations > 0)
        => /\ calls[c].handler.sawTimer = "armed"
           /\ calls[c].timer.state \in {"armed", "fired"}

C17_HandlerThrewWithTimerArmed ==
    \E c \in Calls :
        /\ Started(c)
        /\ calls[c].job.timeout = Num(1)
        /\ calls[c].handler.fn = Fn("h1")
        /\ calls[c].handler.state = "threw"
        /\ calls[c].handler.sawTimer = "armed"
        /\ calls[c].timer = ArmTimer(Num(1))

\* C18: a call that found a registered handler and decoded the payload has
\* invoked that handler once, with the job's id and the decoded payload, and
\* no more than once whatever came of it; any other call has invoked no
\* registered handler; and executeJob invokes no lifecycle callback.
C18_HandlerInvokedOnceAndNoCallback ==
    /\ \A c \in Calls :
          Started(c)
          => IF calls[c].checked \in {Fn(h) : h \in Handlers}
                  /\ JSONParse(calls[c].job.payload).kind = "return"
             THEN /\ calls[c].handler.invocations = 1
                  /\ calls[c].handler.fn = calls[c].checked
                  /\ calls[c].handler.args =
                        <<calls[c].job.id, JSONParse(calls[c].job.payload).value>>
             ELSE /\ calls[c].handler.fn \notin {Fn(h) : h \in Handlers}
                  /\ calls[c].handler.invocations <= 1
    /\ \A callbackName \in CallbackNames : cbCalls[callbackName] = 0
    /\ \A d \in Dispatches : dispatches[d] = NotDispatched

C18_RejectedOnceWithCallbacksConfigured ==
    \E c \in Calls :
        /\ Started(c)
        /\ calls[c].checked = Fn("h1")
        /\ fnOptions["h1"] = Obj(BuildOptions(FullOptions))
        /\ calls[c].handler.state = "rejected"
        /\ calls[c].handler.invocations = 1
        /\ calls[c].outcome = Rejected(HandlerError)

\* C19: the handler a call has invoked is the one its guard found under
\* job.name when the call was made, and a registration or removal while the
\* call is in flight changes nothing of the call: not the handler that runs,
\* not what it was given, not the outcome.
C19_HandlerFixedWhenCalled ==
    /\ [](\A c \in Calls :
            (Started(c) /\ calls[c].handler.invocations > 0)
            => /\ calls[c].handler.fn = calls[c].checked
               /\ (Settled(c) /\ ~IsTimeoutError(calls[c].outcome.error))
                    => calls[c].outcome = HandlerOutcome(c))
    /\ [][(ret' # ret /\ ret'.op \in {"addWorker", "removeWorker"}) => calls' = calls]_vars

C19_InFlightWithWorkerRemoved ==
    \E c \in Calls :
        /\ Started(c)
        /\ calls[c].checked = Fn("h1")
        /\ calls[c].handler.fn = Fn("h1")
        /\ calls[c].handler.state = "pending"
        /\ calls[c].outcome = Pending
        /\ ret.op = "removeWorker"
        /\ calls[c].job.name.v \notin DOMAIN workers

\* C20, as claimed: every timer a call armed and that has fired rejected a
\* promise the call's race observes; no timeout rejection is left without an
\* observer, whether the handler resolves, rejects or throws when invoked.
C20_EveryTimeoutRejectionObserved ==
    \A c \in Calls :
        calls[c].timer.state = "fired" => (calls[c].raced /\ ~calls[c].unhandled)

---------------------------------------------------------------------------
(* Properties of the registry *)

\* The last call registered ret.worker under ret.name.
JustRegistered == ret.op = "addWorker" /\ ret.result = Return(Undef)

OptionsGiven == IF ret.options = Undef THEN EmptyOptions ELSE ret.options

\* The documented defaults of the policy fields.
DocumentedDefault(o) ==
    CASE o = "concurrency" -> Num(1)
      [] o = "isJobRunnable" -> DefaultIsJobRunnable
      [] o = "failureBehavior" -> Str("standard")
      [] o = "minimumMillisBetweenAttempts" -> Num(0)
      [] OTHER -> Null

\* Option values a registration may validly supply.
ValidOption(o, v) ==
    \/ v = Undef
    \/ CASE o = "concurrency" -> v.t = "number" /\ v.v > 0
         [] o = "failureBehavior" -> v \in {Str("standard"), Str("custom")}
         [] o = "minimumMillisBetweenAttempts" -> v.t = "number" /\ v.v >= 0
         [] OTHER -> v.t = "function"

\* The policy stored for a name: undefined when the name has no entry.
StoredPolicy(jobName) ==
    IF jobName \in DOMAIN workers THEN getWorkerOptions(jobName).value ELSE Undef

\* C7, as claimed: the policy stored for a registered name changes only in a
\* registration or removal of that same name.
C7_PolicyChangesOnlyUnderOwnName ==
    [][\A jobName \in JobNames :
          (jobName \in DOMAIN workers /\ StoredPolicy(jobName)' # StoredPolicy(jobName))
          => (ret'.op \in {"addWorker", "removeWorker"} /\ ret'.name = Str(jobName))]_vars

\* C8: right after a registration with valid options, the policy read back
\* for the name holds every supplied option value and the documented default
\* for every omitted one; and no field of the policy of a registered name is
\* ever undefined or missing.
C8_PolicyIsOptionsWithDefaults ==
    /\ (JustRegistered /\ \A o \in OptionNames : ValidOption(o, OptionsGiven[o]))
       => getWorkerOptions(ret.name.v) =
            Return(Obj([o \in OptionNames |->
                IF OptionsGiven[o] = Undef THEN DocumentedDefault(o) ELSE OptionsGiven[o]]))
    /\ \A jobName \in DOMAIN workers :
          /\ StoredPolicy(jobName).t = "object"
          /\ DOMAIN StoredPolicy(jobName).v = OptionNames
          /\ \A o \in OptionNames : StoredPolicy(jobName).v[o] # Undef

C8_RegisteredWithOneOptionSupplied ==
    /\ JustRegistered
    /\ ret.options = [EmptyOptions EXCEPT !["failureBehavior"] = Str("custom")]
    /\ getFailureBehavior(ret.name.v) = Return(Str("custom"))
    /\ getConcurrency(ret.name.v) = Return(Num(1))

\* C9: a registration under a name that already has an entry replaces it:
\* the name's handler is the one just given, and every policy field is the
\* option just given or, that one missing or falsy, the default, whatever the
\* replaced entry held.
C9_ReRegistrationReplaces ==
    (JustRegistered /\ ret.replaced # Undef)
    => /\ WorkersGet(ret.name.v) = ret.worker
       /\ \A o \in OptionNames :
            StoredPolicy(ret.name.v).v[o] =
                IF Truthy(OptionsGiven[o]) THEN OptionsGiven[o] ELSE DocumentedDefault(o)

C9_ReplacedEntryHadOtherOptions ==
    /\ JustRegistered
    /\ ret.replaced = Fn("h1")
    /\ ret.worker = Fn("h2")
    /\ ret.options = [EmptyOptions EXCEPT !["failureBehavior"] = Str("custom")]
    /\ fnOptions["h1"].v["concurrency"] = Num(2)
    /\ getConcurrency(ret.name.v) = Return(Num(1))

\* C10, as claimed: every lookup by a name that has no entry fails with the
\* error of a missing worker, in getWorkerOptions as in the other accessors
\* and in executeJob.
C10_UnknownNameFailsWithNoWorkerError ==
    /\ (ret.op \in LookupOps /\ ret.name.v \notin DOMAIN workers)
       => ret.result = Throw(NoWorkerError(ret.name))
    /\ \A c \in Calls :
          (Started(c) /\ calls[c].checked \notin {Fn(h) : h \in Handlers})
          => calls[c].outcome = Rejected(NoWorkerError(calls[c].job.name))

\* C11, as claimed: removeWorker never fails; it changes nothing but the
\* entry of the name it is given, nothing at all when the name has no entry;
\* and once it has returned, getWorkerOptions for that name fails with the
\* error of a missing worker.
C11_RemovedNameFailsWithNoWorkerError ==
    /\ [][(ret' # ret /\ ret'.op = "removeWorker")
            => /\ ret'.result = Return(Undef)
               /\ fnOptions' = fnOptions
               /\ DOMAIN workers' = DOMAIN workers \ {ret'.name.v}
               /\ \A jobName \in DOMAIN workers' : workers'[jobName] = workers[jobName]]_vars
    /\ []((ret.op = "removeWorker" /\ ret.name.v \in JobNames)
            => getWorkerOptions(ret.name.v) = Throw(NoWorkerError(ret.name)))

---------------------------------------------------------------------------
(* Properties of executeJobLifecycleCallback *)

Dispatched(d) == dispatches[d] # NotDispatched
\* The call was given the name of a lifecycle callback.
LifecycleName(d) == dispatches[d].callbackName \in {Str(n) : n \in CallbackNames}
\* The call found a worker registered under jobName.
WorkerFound(d) == dispatches[d].worker \in {Fn(h) : h \in Handlers}

\* C12: a call with a valid callback name whose callback threw or rejected
\* has resolved, the callback's error written to the console; no call ever
\* rejects with the callback's error.
C12_CallbackFailureLoggedAndDiscarded ==
    \A d \in Dispatches :
        /\ (Dispatched(d) /\ LifecycleName(d)
              /\ dispatches[d].callback.state \in {"threw", "rejected"})
           => /\ dispatches[d].outcome = Resolved
              /\ dispatches[d].console = <<CallbackError>>
        /\ dispatches[d].outcome # Rejected(CallbackError)

C12_ResolvedAfterCallbackRejected ==
    \E d \in Dispatches :
        /\ LifecycleName(d)
        /\ dispatches[d].callback.fn = Fn("cb")
        /\ dispatches[d].callback.state = "rejected"
        /\ dispatches[d].outcome = Resolved

\* C13, as claimed: a call with a valid callback name and a jobName under
\* which no worker is registered rejects with the error of a missing worker.
C13_DispatchForUnknownWorkerFailsWithNoWorkerError ==
    \A d \in Dispatches :
        (Dispatched(d) /\ LifecycleName(d) /\ ~WorkerFound(d))
        => dispatches[d].outcome = Rejected(NoWorkerError(dispatches[d].jobName))

\* C14: a call with a callback name that is none of the six rejects with the
\* invalid-name error and invokes nothing, whatever the jobName and whatever
\* is registered; callbacks are invoked by calls with a valid name only, at
\* most once each.
C14_InvalidCallbackNameRejectsAndInvokesNothing ==
    /\ \A d \in Dispatches :
          (Dispatched(d) /\ ~LifecycleName(d))
          => /\ dispatches[d].outcome = Rejected(InvalidCallbackError)
             /\ dispatches[d].callback = NoCallback
             /\ dispatches[d].console = <<>>
    /\ \A callbackName \in CallbackNames :
          cbCalls[callbackName] =
              Cardinality({d \in Dispatches :
                              /\ dispatches[d].callbackName = Str(callbackName)
                              /\ dispatches[d].callback.invocations = 1})

C14_InvalidNameRejectedWithCallbacksConfigured ==
    \E d \in Dispatches :
        /\ dispatches[d].callbackName = Str("concurrency")
        /\ dispatches[d].jobName = Str("a")
        /\ "a" \in DOMAIN workers
        /\ getWorkerOptions("a").value.v["onStart"] = Fn("cb")
        /\ dispatches[d].outcome = Rejected(InvalidCallbackError)

---------------------------------------------------------------------------
(* Properties of execIsJobRunnable *)

RunnableByDefault == Return(Obj([runnable |-> TRUE]))

\* C15, as claimed: a name registered without isJobRunnable is runnable for
\* every job, right after its registration and still after a registration
\* under another name; a name registered with a predicate gets exactly what
\* the predicate returns, and what the predicate throws.
C15_RunnableFollowsOwnRegistration ==
    /\ []((JustRegistered /\ ~Truthy(OptionsGiven["isJobRunnable"]))
            => \A job \in RunnableJobs :
                  execIsJobRunnable(ret.name.v, job) = RunnableByDefault)
    /\ []((JustRegistered /\ Truthy(OptionsGiven["isJobRunnable"]))
            => \A job \in RunnableJobs :
                  execIsJobRunnable(ret.name.v, job) = UserIsJobRunnable(job))
    /\ [][\A jobName \in JobNames :
            (/\ JustRegistered
             /\ ret.name = Str(jobName)
             /\ ~Truthy(OptionsGiven["isJobRunnable"])
             /\ ret'.op = "addWorker"
             /\ ret'.name # ret.name)
            => \A job \in RunnableJobs :
                  execIsJobRunnable(jobName, job)' = RunnableByDefault]_vars

===========================================================================
